---- MODULE Spec2Model ----
(***************************************************************************)
(* Model of src/solver.py: the Murder Drones viewer.  One cooperative      *)
(* presentation loop (Tk mainloop) owns the ViewerApp fields and the       *)
(* root.after timers; a SpeechWorker thread pushes recognised text on      *)
(* command_q; download_and_reload threads search and download into the     *)
(* images directory; VoiceAssistant.say spawns one thread per utterance,   *)
(* all serialised by one lock.                                             *)
(*                                                                         *)
(* Text is modelled as text: commands, URLs and file paths are strings,    *)
(* and split/join/isdigit/int/replace/splitext are computed character by   *)
(* character.                                                              *)
(***************************************************************************)
EXTENDS Naturals, Integers, Sequences, FiniteSets, Bags, TLC

(***************************************************************************)
(* Bounds of the model.                                                    *)
(***************************************************************************)
\* commands the SpeechWorker recognises in one run
MaxCmds == 2
\* commands waiting in command_q at one time
MaxQueue == 2
\* pending root.after callbacks of one kind (slideshow steps, reloads)
MaxTimers == 3
\* utterance threads waiting for the VoiceAssistant lock
MaxSay == 2
\* download_and_reload threads started in one run
MaxFetch == 2
\* seconds the wall clock advances during a run
MaxClock == 1
\* items of a collection a handler is applied to on its own
MaxItems == 3

(***************************************************************************)
(* Program constants.                                                      *)
(***************************************************************************)
DEFAULT_DOWNLOAD_COUNT == 6
IMAGES_DIR == "images"
\* Python's None for a timer handle; root.after ids are 1, 2, ...
None == 0

(***************************************************************************)
(* Text.                                                                   *)
(***************************************************************************)
\* the characters that occur, in ASCII order (for str comparison)
Ascii == " ./0123456789:=?ABCDEFGHIJKLMNOPQRSTUVWXYZ_abcdefghijklmnopqrstuvwxyz"
Upper == "ABCDEFGHIJKLMNOPQRSTUVWXYZ"
Lower == "abcdefghijklmnopqrstuvwxyz"
Digits == "0123456789"

Ch(s, i) == SubSeq(s, i, i)

\* position of character c in string t, 0 when absent  (str.find on one char)
Find(t, c) ==
    IF \E i \in 1..Len(t) : Ch(t, i) = c
    THEN CHOOSE i \in 1..Len(t) : Ch(t, i) = c /\ \A j \in 1..(i-1) : Ch(t, j) # c
    ELSE 0

\* last position of character c in string t, 0 when absent  (str.rfind)
RFind(t, c) ==
    IF \E i \in 1..Len(t) : Ch(t, i) = c
    THEN CHOOSE i \in 1..Len(t) : Ch(t, i) = c /\ \A j \in (i+1)..Len(t) : Ch(t, j) # c
    ELSE 0

Ord(c) == Find(Ascii, c)

\* Python's str < str: lexicographic by character code
RECURSIVE StrLess(_, _)
StrLess(a, b) ==
    IF Len(b) = 0 THEN FALSE
    ELSE IF Len(a) = 0 THEN TRUE
    ELSE IF Head(a) = Head(b) THEN StrLess(Tail(a), Tail(b))
    ELSE Ord(Head(a)) < Ord(Head(b))

startswith(s, p) == Len(s) >= Len(p) /\ SubSeq(s, 1, Len(p)) = p

LowerCh(c) == IF Find(Upper, c) = 0 THEN c ELSE Ch(Lower, Find(Upper, c))

RECURSIVE lower(_)
lower(s) == IF Len(s) = 0 THEN "" ELSE LowerCh(Head(s)) \o lower(Tail(s))

RECURSIVE lstrip(_)
lstrip(s) == IF Len(s) > 0 /\ Head(s) = " " THEN lstrip(Tail(s)) ELSE s

RECURSIVE rstrip(_)
rstrip(s) ==
    IF Len(s) > 0 /\ Ch(s, Len(s)) = " " THEN rstrip(SubSeq(s, 1, Len(s) - 1)) ELSE s

strip(s) == rstrip(lstrip(s))

\* str.split(): the maximal runs of non-blank characters, in order
RECURSIVE split(_)
split(s) ==
    LET t == lstrip(s)
        sp == Find(t, " ")
    IN  IF Len(t) = 0 THEN <<>>
        ELSE IF sp = 0 THEN <<t>>
        ELSE <<SubSeq(t, 1, sp - 1)>> \o split(SubSeq(t, sp + 1, Len(t)))

\* " ".join(parts)
RECURSIVE join(_)
join(parts) ==
    IF Len(parts) = 0 THEN ""
    ELSE IF Len(parts) = 1 THEN parts[1]
    ELSE parts[1] \o " " \o join(Tail(parts))

isdigit(tok) == Len(tok) > 0 /\ \A i \in 1..Len(tok) : Find(Digits, Ch(tok, i)) # 0

\* int(tok) for a token of decimal digits
RECURSIVE int(_)
int(tok) ==
    IF Len(tok) = 0 THEN 0
    ELSE 10 * int(SubSeq(tok, 1, Len(tok) - 1)) + (Find(Digits, Ch(tok, Len(tok))) - 1)

\* str(n) for n >= 0, as an f-string renders it
RECURSIVE str(_)
str(n) ==
    IF n < 10 THEN Ch(Digits, n + 1)
    ELSE str(n \div 10) \o Ch(Digits, (n % 10) + 1)

\* s.replace(" ", "_")
RECURSIVE replace_(_)
replace_(s) ==
    IF Len(s) = 0 THEN ""
    ELSE (IF Head(s) = " " THEN "_" ELSE Head(s)) \o replace_(Tail(s))

\* url.split("?")[0]
BeforeQuery(url) ==
    IF Find(url, "?") = 0 THEN url ELSE SubSeq(url, 1, Find(url, "?") - 1)

\* os.path.splitext(p)[1]: from the last dot of the last path component,
\* unless that component has nothing but dots before it
splitext(p) ==
    LET sepIndex == RFind(p, "/")
        dotIndex == RFind(p, ".")
    IN  IF dotIndex > sepIndex
           /\ \E k \in (sepIndex + 1)..(dotIndex - 1) : Ch(p, k) # "."
        THEN SubSeq(p, dotIndex, Len(p))
        ELSE ""

\* os.path.basename(p)
basename(p) == SubSeq(p, RFind(p, "/") + 1, Len(p))

(***************************************************************************)
(* State.                                                                  *)
(***************************************************************************)
VARIABLES
    \* ---- ViewerApp fields, owned by the presentation loop
    images,               \* self.images: sequence of ImageItem
    index,                \* self.index
    slideshow,            \* self.slideshow
    slideshow_job,        \* self.slideshow_job: after id or None
    anim_job,             \* self.anim_job: after id or None
    current_frames,       \* self.current_frames: sequence of frames
    current_frame_index,  \* self.current_frame_index
    canvas,               \* self.canvas: its text and its image
    status,               \* self.status: the status bar's text
    \* ---- the Tk event loop
    timers,               \* pending root.after callbacks: {[id, cb]}
    loopPc,               \* "idle" | "draining" (inside _process_commands)
    quitting,             \* root.quit() was called in this callback
    running,              \* the process is alive (mainloop has not returned)
    \* ---- threads and what they share
    command_q,            \* queue.Queue of command text
    workerPc,             \* SpeechWorker.run: "start"|"listening"|"transcribing"|"backoff"|"done"
    sayq,                 \* VoiceAssistant.say threads waiting for the lock, by spawn order
    speaking,             \* the utterances inside the engine (say, runAndWait)
    fetches,              \* bag of live download_and_reload threads
    \* ---- environment
    dir,                  \* the images directory: path -> frames the file decodes to
    clock,                \* int(time.time())
    engine,               \* pyttsx3.init() succeeded
    mic,                  \* sr.Microphone() is available
    \* ---- observers (history of the run, not program state)
    enqueued,             \* every text the SpeechWorker put on command_q, in order
    dispatched,           \* every command _process_commands took, in order
    nfetch,               \* download_and_reload threads started so far
    sinceStop,            \* slideshow-driven advances since _stop_slideshow last
                          \* ran with no start after it; -1 when there is none
    probe,                \* the argument and result of a handler applied on its
                          \* own (SpecCycle); <<>> in a run of the program
    tickEnq               \* Len(enqueued) when the poll tick under way, or the
                          \* last one, began

appvars == <<images, index, slideshow, slideshow_job, anim_job, current_frames,
             current_frame_index, canvas, status, timers, quitting, sayq, fetches,
             nfetch, sinceStop>>
vars == <<images, index, slideshow, slideshow_job, anim_job, current_frames,
          current_frame_index, canvas, status, timers, loopPc, quitting, running,
          command_q, workerPc, sayq, speaking, fetches, dir, clock, engine, mic,
          enqueued, dispatched, nfetch, sinceStop, probe, tickEnq>>

(***************************************************************************)
(* The inputs the environment can supply.                                  *)
(***************************************************************************)
\* what the recogniser may return for an utterance (before lower().strip())
Utterances == {"Next", "previous", "start slideshow", "stop slideshow",
               "download cyn 8", "download cyn", "frobnicate", "quit"}

\* image URLs the search may return
UrlPool == {"http://x/a.gif?s=1.5", "http://x/b"}

\* HTTP responses to an image URL.  clen is the Content-Length header, <<>>
\* when the header is absent; frames is what the written file decodes to (0:
\* nothing PIL can open, 1: a still, 2: an animation of two frames); raises
\* tells where the request fails: "get" in requests.get, "read" in
\* iter_content after the file was opened, "no" nowhere.
Responses == {
    [raises |-> "no",   code |-> 200, ctype |-> "image/jpeg", clen |-> <<"512">>, frames |-> 1],
    [raises |-> "no",   code |-> 200, ctype |-> "image/gif",  clen |-> <<>>,      frames |-> 2],
    [raises |-> "no",   code |-> 200, ctype |-> "text/html",  clen |-> <<"512">>, frames |-> 0],
    [raises |-> "no",   code |-> 200, ctype |-> "text/html",  clen |-> <<>>,      frames |-> 0],
    [raises |-> "no",   code |-> 404, ctype |-> "text/html",  clen |-> <<"512">>, frames |-> 0],
    [raises |-> "get",  code |-> 0,   ctype |-> "",           clen |-> <<>>,      frames |-> 0],
    [raises |-> "read", code |-> 200, ctype |-> "image/jpeg", clen |-> <<"512">>, frames |-> 0] }

\* the images directory as the program may find it at startup
EmptyDir == [p \in {} |-> 0]
StartDirs == { EmptyDir,
               [p \in {"images/a.gif", "images/b.png", "images/c.jpg"} |->
                    CASE p = "images/a.gif" -> 2
                      [] p = "images/b.png" -> 1
                      [] OTHER -> 0] }

(***************************************************************************)
(* The ViewerApp handlers, as functions of the application state `a`: a    *)
(* record of the fields a handler can touch (appvars).  A handler that     *)
(* calls another applies it; an action of the loop commits the result.     *)
(***************************************************************************)
App == [images |-> images, index |-> index, slideshow |-> slideshow,
        slideshow_job |-> slideshow_job, anim_job |-> anim_job,
        current_frames |-> current_frames,
        current_frame_index |-> current_frame_index,
        canvas |-> canvas, status |-> status, timers |-> timers,
        quitting |-> quitting, sayq |-> sayq, fetches |-> fetches,
        nfetch |-> nfetch, sinceStop |-> sinceStop]

Commit(a) ==
    /\ images' = a.images
    /\ index' = a.index
    /\ slideshow' = a.slideshow
    /\ slideshow_job' = a.slideshow_job
    /\ anim_job' = a.anim_job
    /\ current_frames' = a.current_frames
    /\ current_frame_index' = a.current_frame_index
    /\ canvas' = a.canvas
    /\ status' = a.status
    /\ timers' = a.timers
    /\ quitting' = a.quitting
    /\ sayq' = a.sayq
    /\ fetches' = a.fetches
    /\ nfetch' = a.nfetch
    /\ sinceStop' = a.sinceStop

\* pending callbacks of one kind
Pending(ts, cb) == {t \in ts : t.cb = cb}

\* the model's bounds, as a guard on the state an action leads to
Bounded(a) ==
    /\ Len(a.sayq) <= MaxSay
    /\ a.nfetch <= MaxFetch
    /\ \A cb \in {"_slideshow_step", "_reload_images"} :
            Cardinality(Pending(a.timers, cb)) <= MaxTimers

\* VoiceAssistant.say: no engine, no utterance; else one thread per call
say(a, text) ==
    IF ~engine THEN a ELSE [a EXCEPT !.sayq = Append(@, text)]

\* root.after: a fresh id, never one a handle still holds
NewId(a) ==
    LET used == {t.id : t \in a.timers} \cup {a.anim_job, a.slideshow_job, None}
    IN  CHOOSE n \in 1..(Cardinality(used) + 1) :
            n \notin used /\ \A m \in 1..(n - 1) : m \in used

after(a, cb) == [a EXCEPT !.timers = @ \cup {[id |-> NewId(a), cb |-> cb]}]

\* root.after_cancel: a fired or cancelled id cancels nothing
after_cancel(a, id) == [a EXCEPT !.timers = {t \in @ : t.id # id}]

\* ImageItem(path): _load decodes the file; a failure leaves _frames empty
ImageItem(path) == [path |-> path, frames |-> dir[path]]

\* ImageItem.get_frames: one PhotoImage per decoded frame
get_frames(item) == [k \in 1..item.frames |-> <<item.path, k - 1>>]

\* files.sort()
RECURSIVE SortPaths(_)
SortPaths(S) ==
    IF S = {} THEN <<>>
    ELSE LET m == CHOOSE q \in S : \A r \in S \ {q} : StrLess(q, r)
         IN  <<m>> \o SortPaths(S \ {m})

\* the extensions _load_images globs for
GlobExts == {".png", ".jpg", ".jpeg", ".gif", ".webp", ".bmp"}

_load_images(a) ==
    LET files == SortPaths({q \in DOMAIN dir : splitext(q) \in GlobExts})
    IN  [a EXCEPT !.images = [i \in 1..Len(files) |-> ImageItem(files[i])]]

\* (mutant of _stop_animation: the pending callback is not cancelled)
_stop_animation_nocancel(a) ==
    [a EXCEPT !.current_frames = <<>>,
              !.current_frame_index = 0,
              !.anim_job = None]

_stop_animation(a) ==
    LET b == IF a.anim_job # None THEN after_cancel(a, a.anim_job) ELSE a
    IN  [b EXCEPT !.current_frames = <<>>,
                  !.current_frame_index = 0,
                  !.anim_job = None]

_animate_gif(a) ==
    IF a.current_frames = <<>> THEN a
    ELSE LET frame == a.current_frames[a.current_frame_index + 1]
             id == NewId(a)
         IN  [a EXCEPT !.canvas.image = frame,
                       !.current_frame_index = (@ + 1) % Len(a.current_frames),
                       !.timers = @ \cup {[id |-> id, cb |-> "_animate_gif"]},
                       !.anim_job = id]

\* (mutant of Wrap: the cursor stops at either end instead of wrapping)
Wrap_clamp(idx, n) == IF idx >= n THEN n - 1 ELSE IF idx < 0 THEN 0 ELSE idx

\* idx % len(self.images)
Wrap(idx, n) == idx % n

_show_image(a, idx) ==
    IF a.images = <<>>
    THEN [a EXCEPT !.canvas.text = "No images found in the images/ folder.",
                   !.status = "0 images"]
    ELSE LET b == _stop_animation(a)
             i == Wrap(idx, Len(a.images))
             item == a.images[i + 1]
             frames == get_frames(item)
             name == basename(item.path)
         IN  IF frames = <<>>
             THEN [b EXCEPT !.index = i, !.canvas.text = "Failed to load image."]
             ELSE LET c == say([b EXCEPT !.index = i,
                                         !.current_frames = frames,
                                         !.current_frame_index = 0,
                                         !.canvas.image = frames[1],
                                         !.status = str(i + 1) \o "/"
                                                    \o str(Len(a.images))
                                                    \o " - " \o name],
                               "Now showing " \o name)
                  IN  IF item.frames > 1 /\ Len(frames) > 1
                      THEN _animate_gif(c) ELSE c

\* (mutant of next_image: the cursor moves before the collection is looked at)
next_image_early(a) ==
    IF a.images = <<>> THEN [a EXCEPT !.index = @ + 1]
    ELSE _show_image(a, a.index + 1)

next_image(a) == IF a.images = <<>> THEN a ELSE _show_image(a, a.index + 1)

prev_image(a) == IF a.images = <<>> THEN a ELSE _show_image(a, a.index - 1)

_schedule_slideshow(a) ==
    LET id == NewId(a)
    IN  [a EXCEPT !.timers = @ \cup {[id |-> id, cb |-> "_slideshow_step"]},
                  !.slideshow_job = id]

_start_slideshow(a) ==
    IF a.images = <<>> THEN [a EXCEPT !.sinceStop = -1]
    ELSE _schedule_slideshow([a EXCEPT !.slideshow = TRUE, !.sinceStop = -1])

_stop_slideshow(a) ==
    LET b == [a EXCEPT !.slideshow = FALSE, !.sinceStop = 0]
    IN  IF b.slideshow_job # None
        THEN [after_cancel(b, b.slideshow_job) EXCEPT !.slideshow_job = None]
        ELSE b

toggle_slideshow(a) ==
    IF a.slideshow THEN _stop_slideshow(a) ELSE _start_slideshow(a)

_slideshow_step(a) ==
    LET b == [next_image(a) EXCEPT
                  !.sinceStop = IF @ >= 0 /\ a.images # <<>> THEN @ + 1 ELSE @]
    IN  IF b.slideshow THEN _schedule_slideshow(b) ELSE b

\* (mutant of _reload_images: the collection is replaced, the cursor kept)
_reload_images_keep(a) == _load_images(a)

_reload_images(a) ==
    LET b == _load_images(a)
    IN  IF b.images # <<>> THEN _show_image(b, 0) ELSE b

\* threading.Thread(target=self.download_and_reload, args=(query, count)).start()
\* (nimg is an observer: the image responses download_images has met)
FetchThread(query, count) ==
    [query |-> query, count |-> count, pc |-> "begin",
     urls |-> <<>>, i |-> 0, saved |-> <<>>, nimg |-> 0]

StartFetch(a, query, count) ==
    [a EXCEPT !.fetches = @ (+) SetToBag({FetchThread(query, count)}),
              !.nfetch = @ + 1]

\* the query and the count _process_commands takes from a download command
DownloadTerm(cmd) ==
    LET parts == split(cmd)
    IN  IF Len(parts) >= 2 THEN join(Tail(parts)) ELSE "cyn murder drones"

DownloadCount(cmd) ==
    LET parts == split(cmd)
    IN  IF Len(parts) > 0 /\ isdigit(parts[Len(parts)])
        THEN int(parts[Len(parts)]) ELSE DEFAULT_DOWNLOAD_COUNT

\* (mutant of Unrecognized: the echo is followed by an advance)
Unrecognized_advance(a, cmd) ==
    next_image(say(a, "Command not recognized: " \o cmd))

\* the else branch of _process_commands: echo the command
Unrecognized(a, cmd) == say(a, "Command not recognized: " \o cmd)

\* one iteration of the loop of _process_commands, for the command taken
Dispatch(a, cmd) ==
    IF startswith(cmd, "download")
    THEN StartFetch(a, DownloadTerm(cmd), DownloadCount(cmd))
    ELSE IF cmd \in {"next", "show next", "next image"} THEN next_image(a)
    ELSE IF cmd \in {"previous", "prev", "show previous"} THEN prev_image(a)
    ELSE IF cmd \in {"start slideshow", "play slideshow", "start"}
    THEN _start_slideshow(a)
    ELSE IF cmd \in {"stop slideshow", "stop"} THEN _stop_slideshow(a)
    ELSE IF cmd \in {"quit", "exit", "close"}
    THEN [say(a, "Goodbye") EXCEPT !.quitting = TRUE]
    ELSE Unrecognized(a, cmd)

(***************************************************************************)
(* download_images and bing_image_search_urls.                             *)
(***************************************************************************)
\* "image" in ctype
contains(s, sub) ==
    \E k \in 1..(Len(s) - Len(sub) + 1) : SubSeq(s, k, k + Len(sub) - 1) = sub

\* r.headers.get(name, default)
HeaderGet(h, default) == IF h = <<>> THEN default ELSE h[1]

\* the extension download_images picks for a URL
PickExt(url) ==
    LET ext == splitext(BeforeQuery(url))
    IN  IF ext = "" \/ Len(ext) > 5 THEN ".jpg" ELSE ext

\* os.path.join(folder, f"{prefix}_{int(time.time())}_{i}{ext}")
FilePath(folder, prefix, now, i, url) ==
    folder \o "/" \o prefix \o "_" \o str(now) \o "_" \o str(i) \o PickExt(url)

\* the response is skipped as "non-image"
SkippedNonImage(r) ==
    ~contains(r.ctype, "image") /\ HeaderGet(r.clen, "0") = "0"

\* the file is opened for writing
Opens(r) == r.raises # "get" /\ r.code = 200 /\ ~SkippedNonImage(r)

\* the path is appended to saved
Saves(r) == Opens(r) /\ r.raises = "no"

\* what bing_image_search_urls may return for max_results: at most
\* max_results URLs (one when max_results is 0), none twice
SearchResults(max_results) ==
    LET cap == IF max_results < 1 THEN 1 ELSE max_results
        n == Cardinality(UrlPool)
    IN  {u \in UNION {[1..k -> UrlPool] : k \in 0..n} :
            /\ Len(u) <= cap
            /\ \A i, j \in 1..Len(u) : i # j => u[i] # u[j]}

(***************************************************************************)
(* Initial state: ViewerApp.__init__ has run.                              *)
(***************************************************************************)
App0 == [images |-> <<>>, index |-> 0, slideshow |-> FALSE,
         slideshow_job |-> None, anim_job |-> None,
         current_frames |-> <<>>, current_frame_index |-> 0,
         canvas |-> [text |-> "No images yet", image |-> <<>>],
         status |-> "", timers |-> {}, quitting |-> FALSE,
         sayq |-> <<>>, fetches |-> EmptyBag, nfetch |-> 0, sinceStop |-> -1]

InitProgram ==
    /\ engine \in BOOLEAN
    /\ mic \in BOOLEAN
    /\ dir \in StartDirs
    /\ clock = 0
    /\ \E a \in {after(_show_image(_load_images(App0), 0), "_process_commands")} :
           /\ images = a.images
           /\ index = a.index
           /\ slideshow = a.slideshow
           /\ slideshow_job = a.slideshow_job
           /\ anim_job = a.anim_job
           /\ current_frames = a.current_frames
           /\ current_frame_index = a.current_frame_index
           /\ canvas = a.canvas
           /\ status = a.status
           /\ timers = a.timers
           /\ quitting = a.quitting
           /\ sayq = a.sayq
           /\ fetches = a.fetches
           /\ nfetch = a.nfetch
           /\ sinceStop = a.sinceStop
    /\ loopPc = "idle"
    /\ running = TRUE
    /\ command_q = <<>>
    /\ workerPc = "start"
    /\ speaking = <<>>
    /\ enqueued = <<>>
    /\ dispatched = <<>>
    /\ tickEnq = 0

Init == InitProgram /\ probe = <<>>

(***************************************************************************)
(* The presentation loop: one callback at a time.                          *)
(***************************************************************************)
\* the mainloop is between callbacks and root.quit() has not been called
LoopIdle == running /\ loopPc = "idle" /\ ~quitting

\* a callback of the loop, other than _process_commands, ran and left `a`
LoopStep(e) ==
    /\ \E a \in {e} : Bounded(a) /\ Commit(a)
    /\ UNCHANGED <<loopPc, running, command_q, workerPc, speaking, dir, clock,
                   engine, mic, enqueued, dispatched, probe, tickEnq>>

\* App with timer t fired (no longer pending)
Fired(t) == [App EXCEPT !.timers = @ \ {t}]

PressNext == LoopIdle /\ LoopStep(next_image(App))

PressPrev == LoopIdle /\ LoopStep(prev_image(App))

PressSlideshow == LoopIdle /\ LoopStep(toggle_slideshow(App))

PressDownloadCyn ==
    LoopIdle /\ LoopStep(StartFetch(App, "Cyn murder drones", DEFAULT_DOWNLOAD_COUNT))

PressDownloadSolver ==
    LoopIdle /\ LoopStep(StartFetch(App, "Solver murder drones", DEFAULT_DOWNLOAD_COUNT))

AnimateTick ==
    /\ LoopIdle
    /\ \E t \in Pending(timers, "_animate_gif") : LoopStep(_animate_gif(Fired(t)))

SlideshowTick ==
    /\ LoopIdle
    /\ \E t \in Pending(timers, "_slideshow_step") : LoopStep(_slideshow_step(Fired(t)))

ReloadTick ==
    /\ LoopIdle
    /\ \E t \in Pending(timers, "_reload_images") : LoopStep(_reload_images(Fired(t)))

\* _process_commands is called by its timer
PollBegin ==
    /\ LoopIdle
    /\ \E t \in Pending(timers, "_process_commands") : timers' = timers \ {t}
    /\ loopPc' = "draining"
    /\ tickEnq' = Len(enqueued)
    /\ UNCHANGED <<images, index, slideshow, slideshow_job, anim_job, current_frames,
                   current_frame_index, canvas, status, quitting, running, command_q,
                   nfetch, sinceStop,
                   workerPc, sayq, speaking, fetches, dir, clock, engine, mic,
                   enqueued, dispatched, probe>>

\* (mutant of DispatchOne: the newest command is taken, not the oldest)
DispatchOne_lifo ==
    /\ running /\ loopPc = "draining"
    /\ command_q # <<>>
    /\ \E a \in {Dispatch(App, command_q[Len(command_q)])} : Bounded(a) /\ Commit(a)
    /\ command_q' = SubSeq(command_q, 1, Len(command_q) - 1)
    /\ dispatched' = Append(dispatched, command_q[Len(command_q)])
    /\ UNCHANGED <<loopPc, running, workerPc, speaking, dir, clock, engine, mic,
                   enqueued, probe, tickEnq>>

\* one iteration of `while not self.command_q.empty()`
DispatchOne ==
    /\ running /\ loopPc = "draining"
    /\ command_q # <<>>
    /\ \E a \in {Dispatch(App, Head(command_q))} : Bounded(a) /\ Commit(a)
    /\ command_q' = Tail(command_q)
    /\ dispatched' = Append(dispatched, Head(command_q))
    /\ UNCHANGED <<loopPc, running, workerPc, speaking, dir, clock, engine, mic,
                   enqueued, probe, tickEnq>>

\* (mutant of PollEnd: the tick returns without re-arming the poll)
PollEnd_norearm ==
    /\ running /\ loopPc = "draining"
    /\ command_q = <<>>
    /\ loopPc' = "idle"
    /\ UNCHANGED <<images, index, slideshow, slideshow_job, anim_job, current_frames,
                   current_frame_index, canvas, status, timers, quitting, running,
                   command_q, nfetch, sinceStop,
                   workerPc, sayq, speaking, fetches, dir, clock, engine, mic,
                   enqueued, dispatched, probe, tickEnq>>

\* the queue is empty: re-arm and return to the mainloop
PollEnd ==
    /\ running /\ loopPc = "draining"
    /\ command_q = <<>>
    /\ timers' = after(App, "_process_commands").timers
    /\ loopPc' = "idle"
    /\ UNCHANGED <<images, index, slideshow, slideshow_job, anim_job, current_frames,
                   current_frame_index, canvas, status, quitting, running, command_q,
                   nfetch, sinceStop,
                   workerPc, sayq, speaking, fetches, dir, clock, engine, mic,
                   enqueued, dispatched, probe, tickEnq>>

\* root.quit() was called in the callback that has returned: mainloop
\* returns, main returns and the process ends, its daemon threads with it
MainloopReturn ==
    /\ running /\ loopPc = "idle" /\ quitting
    /\ running' = FALSE
    /\ UNCHANGED <<images, index, slideshow, slideshow_job, anim_job, current_frames,
                   current_frame_index, canvas, status, timers, loopPc, quitting,
                   command_q, nfetch, sinceStop,
                   workerPc, sayq, speaking, fetches, dir, clock, engine, mic,
                   enqueued, dispatched, probe, tickEnq>>

(***************************************************************************)
(* SpeechWorker.run, on its own thread.                                    *)
(***************************************************************************)
\* the fields only the presentation loop writes
loopvars == <<images, index, slideshow, slideshow_job, anim_job, current_frames,
              current_frame_index, canvas, timers, loopPc, quitting, running,
              nfetch, sinceStop, tickEnq>>

\* no microphone: announce and return; else calibrate, announce, listen
WorkerStart ==
    /\ running /\ workerPc = "start"
    /\ LET a == say(App, IF mic THEN "Voice commands ready."
                         ELSE "Microphone not available. Voice commands disabled.")
       IN  Bounded(a) /\ sayq' = a.sayq
    /\ workerPc' = IF mic THEN "listening" ELSE "done"
    /\ UNCHANGED <<loopvars, status, command_q, speaking, fetches, dir, clock,
                   engine, mic, enqueued, dispatched, probe>>

\* recognizer.listen returned the audio of an utterance
WorkerListen ==
    /\ running /\ workerPc = "listening"
    /\ workerPc' = "transcribing"
    /\ UNCHANGED <<loopvars, status, command_q, sayq, speaking, fetches, dir, clock,
                   engine, mic, enqueued, dispatched, probe>>

\* recognize_google returned text: lower().strip() and q.put
WorkerHear(text) ==
    /\ running /\ workerPc = "transcribing"
    /\ Len(enqueued) < MaxCmds /\ Len(command_q) < MaxQueue
    /\ command_q' = Append(command_q, strip(lower(text)))
    /\ enqueued' = Append(enqueued, strip(lower(text)))
    /\ workerPc' = "listening"
    /\ UNCHANGED <<loopvars, status, sayq, speaking, fetches, dir, clock,
                   engine, mic, dispatched, probe>>

\* sr.UnknownValueError: continue
WorkerUnknown ==
    /\ running /\ workerPc = "transcribing"
    /\ workerPc' = "listening"
    /\ UNCHANGED <<loopvars, status, command_q, sayq, speaking, fetches, dir, clock,
                   engine, mic, enqueued, dispatched, probe>>

\* (mutant of WorkerError: the exception ends run)
WorkerError_exit ==
    /\ running /\ workerPc \in {"listening", "transcribing"}
    /\ workerPc' = "done"
    /\ UNCHANGED <<loopvars, status, command_q, sayq, speaking, fetches, dir, clock,
                   engine, mic, enqueued, dispatched, probe>>

\* any other exception: print, time.sleep(1)
WorkerError ==
    /\ running /\ workerPc \in {"listening", "transcribing"}
    /\ workerPc' = "backoff"
    /\ UNCHANGED <<loopvars, status, command_q, sayq, speaking, fetches, dir, clock,
                   engine, mic, enqueued, dispatched, probe>>

WorkerRetry ==
    /\ running /\ workerPc = "backoff"
    /\ workerPc' = "listening"
    /\ UNCHANGED <<loopvars, status, command_q, sayq, speaking, fetches, dir, clock,
                   engine, mic, enqueued, dispatched, probe>>

(***************************************************************************)
(* VoiceAssistant.say's threads: with self._lock: say, runAndWait.         *)
(***************************************************************************)
\* (mutant of SayAcquire: the thread speaks without taking the lock)
SayAcquire_nolock(k) ==
    /\ running
    /\ k \in 1..Len(sayq)
    /\ speaking' = Append(speaking, sayq[k])
    /\ sayq' = SubSeq(sayq, 1, k - 1) \o SubSeq(sayq, k + 1, Len(sayq))
    /\ UNCHANGED <<loopvars, status, command_q, workerPc, fetches, dir, clock,
                   engine, mic, enqueued, dispatched, probe>>

\* a waiting thread (any: a Lock is not fair) takes the lock and speaks
SayAcquire(k) ==
    /\ running /\ speaking = <<>>
    /\ k \in 1..Len(sayq)
    /\ speaking' = Append(speaking, sayq[k])
    /\ sayq' = SubSeq(sayq, 1, k - 1) \o SubSeq(sayq, k + 1, Len(sayq))
    /\ UNCHANGED <<loopvars, status, command_q, workerPc, fetches, dir, clock,
                   engine, mic, enqueued, dispatched, probe>>

SayRelease ==
    /\ running /\ speaking # <<>>
    /\ speaking' = Tail(speaking)
    /\ UNCHANGED <<loopvars, status, command_q, workerPc, sayq, fetches, dir, clock,
                   engine, mic, enqueued, dispatched, probe>>

(***************************************************************************)
(* download_and_reload, one thread per request.                            *)
(***************************************************************************)
\* thread f of the bag becomes g
Becomes(f, g) == (fetches (-) SetToBag({f})) (+) SetToBag({g})

Ends(f) == fetches (-) SetToBag({f})

\* announce and show the search, then block in bing_image_search_urls
FetchBegin(f) ==
    /\ running /\ BagIn(f, fetches) /\ f.pc = "begin"
    /\ LET a == say(App, "Searching for " \o f.query)
       IN  Bounded(a) /\ sayq' = a.sayq
    /\ status' = "Searching for '" \o f.query \o "'..."
    /\ fetches' = Becomes(f, [f EXCEPT !.pc = "search"])
    /\ UNCHANGED <<loopvars, command_q, workerPc, speaking, dir, clock,
                   engine, mic, enqueued, dispatched, probe>>

\* the search returned urls; with none, announce and return
FetchSearch(f, urls) ==
    /\ running /\ BagIn(f, fetches) /\ f.pc = "search"
    /\ urls \in SearchResults(f.count)
    /\ IF urls = <<>>
       THEN /\ LET a == say(App, "Search returned no results.")
               IN  Bounded(a) /\ sayq' = a.sayq
            /\ status' = "No results."
            /\ fetches' = Ends(f)
       ELSE /\ status' = "Downloading " \o str(Len(urls)) \o " images..."
            /\ fetches' = Becomes(f, [f EXCEPT !.pc = "download", !.urls = urls, !.i = 1])
            /\ sayq' = sayq
    /\ UNCHANGED <<loopvars, command_q, workerPc, speaking, dir, clock,
                   engine, mic, enqueued, dispatched, probe>>

\* one iteration of the loop of download_images, the URL answering with r
FetchDownload(f, r) ==
    /\ running /\ BagIn(f, fetches) /\ f.pc = "download" /\ f.i <= Len(f.urls)
    /\ r \in Responses
    /\ LET filepath == FilePath(IMAGES_DIR, replace_(f.query), clock, f.i, f.urls[f.i])
       IN  /\ dir' = IF Opens(r) THEN (filepath :> r.frames) @@ dir ELSE dir
           /\ fetches' = Becomes(f,
                  [f EXCEPT !.i = @ + 1,
                            !.saved = IF Saves(r) THEN Append(@, filepath) ELSE @,
                            !.nimg = IF r.code = 200 /\ contains(r.ctype, "image")
                                        /\ r.raises = "no"
                                     THEN @ + 1 ELSE @])
    /\ UNCHANGED <<loopvars, status, command_q, workerPc, sayq, speaking, clock,
                   engine, mic, enqueued, dispatched, probe>>

\* (mutant of FetchFinish: the reload is scheduled whatever was saved)
FetchFinish_always(f) ==
    /\ running /\ BagIn(f, fetches) /\ f.pc = "download" /\ f.i > Len(f.urls)
    /\ LET n == str(Len(f.saved))
           a == after(say(App, IF f.saved # <<>>
                               THEN "Downloaded " \o n \o " images for " \o f.query
                                    \o ". Reloading images."
                               ELSE "Download completed but no files were saved."),
                      "_reload_images")
           b == [a EXCEPT !.fetches = Ends(f)]
       IN  /\ Bounded(b)
           /\ sayq' = b.sayq /\ timers' = b.timers /\ fetches' = b.fetches
           /\ status' = "Downloaded " \o n \o " images."
    /\ UNCHANGED <<images, index, slideshow, slideshow_job, anim_job, current_frames,
                   current_frame_index, canvas, loopPc, quitting, running,
                   nfetch, sinceStop,
                   command_q, workerPc, speaking, dir, clock,
                   engine, mic, enqueued, dispatched, probe, tickEnq>>

\* (mutant of FetchFinish: the thread reloads the collection itself)
FetchFinish_direct(f) ==
    /\ running /\ BagIn(f, fetches) /\ f.pc = "download" /\ f.i > Len(f.urls)
    /\ \E a \in {[_reload_images(App) EXCEPT !.fetches = Ends(f)]} :
           Bounded(a) /\ Commit(a)
    /\ UNCHANGED <<loopPc, running, command_q, workerPc, speaking, dir, clock,
                   engine, mic, enqueued, dispatched, probe, tickEnq>>

\* download_images returned: show the count; with files saved, announce and
\* schedule _reload_images on the loop, else announce that nothing was saved
FetchFinish(f) ==
    /\ running /\ BagIn(f, fetches) /\ f.pc = "download" /\ f.i > Len(f.urls)
    /\ LET n == str(Len(f.saved))
           a == IF f.saved # <<>>
                THEN after(say(App, "Downloaded " \o n \o " images for " \o f.query
                                    \o ". Reloading images."),
                           "_reload_images")
                ELSE say(App, "Download completed but no files were saved.")
           b == [a EXCEPT !.fetches = Ends(f)]
       IN  /\ Bounded(b)
           /\ sayq' = b.sayq /\ timers' = b.timers /\ fetches' = b.fetches
           /\ status' = "Downloaded " \o n \o " images."
    /\ UNCHANGED <<images, index, slideshow, slideshow_job, anim_job, current_frames,
                   current_frame_index, canvas, loopPc, quitting, running,
                   nfetch, sinceStop,
                   command_q, workerPc, speaking, dir, clock,
                   engine, mic, enqueued, dispatched, probe, tickEnq>>

\* a file of the images directory is deleted from outside the program
RemoveFile(p) ==
    /\ running /\ p \in DOMAIN dir
    /\ dir' = [q \in DOMAIN dir \ {p} |-> dir[q]]
    /\ UNCHANGED <<loopvars, status, command_q, workerPc, sayq, speaking, fetches,
                   clock, engine, mic, enqueued, dispatched, probe>>

\* a second of wall-clock time passes
ClockTick ==
    /\ running /\ clock < MaxClock
    /\ clock' = clock + 1
    /\ UNCHANGED <<loopvars, status, command_q, workerPc, sayq, speaking, fetches,
                   dir, engine, mic, enqueued, dispatched, probe>>

(***************************************************************************)
(* The program.                                                            *)
(***************************************************************************)
Next ==
    \/ PressNext \/ PressPrev \/ PressSlideshow
    \/ PressDownloadCyn \/ PressDownloadSolver
    \/ AnimateTick \/ SlideshowTick \/ ReloadTick
    \/ PollBegin \/ DispatchOne \/ PollEnd \/ MainloopReturn
    \/ WorkerStart \/ WorkerListen \/ WorkerUnknown \/ WorkerError \/ WorkerRetry
    \/ \E text \in Utterances : WorkerHear(text)
    \/ \E k \in 1..MaxSay : SayAcquire(k)
    \/ SayRelease
    \/ \E f \in BagToSet(fetches) : FetchBegin(f)
    \/ \E f \in BagToSet(fetches) : \E urls \in SearchResults(f.count) : FetchSearch(f, urls)
    \/ \E f \in BagToSet(fetches) : \E r \in Responses : FetchDownload(f, r)
    \/ \E f \in BagToSet(fetches) : FetchFinish(f)
    \/ ClockTick
    \/ \E p \in DOMAIN dir : RemoveFile(p)

Spec == Init /\ [][Next]_vars

(***************************************************************************)
(* Parts of the program, each a set of its behaviours: the threads named   *)
(* are scheduled and the inputs named are supplied; the others are not.    *)
(***************************************************************************)
\* SpecQueue: the SpeechWorker and the dispatcher under every utterance, with
\* no speech engine; timers other than the poll do not fire and the
\* downloads started do not progress.
InitQueue == Init /\ ~engine /\ mic

NextQueue ==
    \/ WorkerStart \/ WorkerListen \/ WorkerUnknown
    \/ \E text \in Utterances : WorkerHear(text)
    \/ PollBegin \/ DispatchOne \/ PollEnd \/ MainloopReturn

SpecQueue == InitQueue /\ [][NextQueue]_vars

\* SpecPoll: the SpeechWorker and the dispatcher under a command of every
\* family, with the presentation loop scheduled fairly: while it has a step
\* to take (a due poll to call, a tick under way to run on, a return from
\* mainloop once root.quit() was called) it takes one.
PollUtterances == {"Next", "start slideshow", "download", "frobnicate", "quit"}

NextPoll ==
    \/ WorkerStart \/ WorkerListen \/ WorkerUnknown
    \/ \E text \in PollUtterances : WorkerHear(text)
    \/ PollBegin \/ DispatchOne \/ PollEnd \/ MainloopReturn

LoopRuns == PollBegin \/ DispatchOne \/ PollEnd \/ MainloopReturn

SpecPoll == InitQueue /\ [][NextPoll]_vars /\ WF_vars(LoopRuns)

\* SpecVoice: navigation by button and by voice, an utterance that is no
\* command, and the announcer's threads.
VoiceUtterances == {"Next", "frobnicate"}

InitVoice == Init /\ engine /\ mic

NextVoice ==
    \/ WorkerStart \/ WorkerListen
    \/ \E text \in VoiceUtterances : WorkerHear(text)
    \/ PollBegin \/ DispatchOne \/ PollEnd
    \/ PressNext \/ PressPrev
    \/ \E k \in 1..MaxSay : SayAcquire(k)
    \/ SayRelease

SpecVoice == InitVoice /\ [][NextVoice]_vars

\* SpecSlide: the slideshow, toggled by the button and started and stopped
\* by voice, with its timer.
SlideshowUtterances == {"start slideshow", "stop slideshow"}

NextSlide ==
    \/ WorkerStart \/ WorkerListen
    \/ \E text \in SlideshowUtterances : WorkerHear(text)
    \/ PollBegin \/ DispatchOne \/ PollEnd
    \/ PressSlideshow
    \/ SlideshowTick

SpecSlide == InitQueue /\ [][NextSlide]_vars

\* SpecView: the presentation loop with its buttons and all its timers, and
\* downloads by the "Download Cyn" button that find one animated image; no
\* microphone, no speech engine.
ViewUrls == <<"http://x/a.gif?s=1.5">>
ViewResponse ==
    [raises |-> "no", code |-> 200, ctype |-> "image/gif", clen |-> <<>>, frames |-> 2]

InitView == Init /\ ~engine /\ ~mic

NextView ==
    \/ PressNext \/ PressPrev \/ PressSlideshow
    \/ PressDownloadCyn
    \/ AnimateTick \/ SlideshowTick \/ ReloadTick
    \/ \E f \in BagToSet(fetches) : FetchBegin(f)
    \/ \E f \in BagToSet(fetches) : FetchSearch(f, ViewUrls)
    \/ \E f \in BagToSet(fetches) : FetchDownload(f, ViewResponse)
    \/ \E f \in BagToSet(fetches) : FetchFinish(f)

SpecView == InitView /\ [][NextView]_vars

\* SpecFetch: downloads started from one button into an empty directory, under
\* every search result and response, with the clock; the reloads they
\* schedule stay pending.
InitFetch == Init /\ ~engine /\ ~mic /\ dir = EmptyDir

NextFetch ==
    \/ PressDownloadCyn
    \/ \E f \in BagToSet(fetches) : FetchBegin(f)
    \/ \E f \in BagToSet(fetches) : \E urls \in SearchResults(f.count) : FetchSearch(f, urls)
    \/ \E f \in BagToSet(fetches) : \E r \in Responses : FetchDownload(f, r)
    \/ \E f \in BagToSet(fetches) : FetchFinish(f)
    \/ ClockTick

SpecFetch == InitFetch /\ [][NextFetch]_vars

\* SpecThreads: every thread of the program at once: the SpeechWorker hearing
\* a download command, the dispatcher, the downloads it starts, the reloads
\* they schedule and the announcer's threads.
ThreadUtterances == {"download cyn 1"}

ThreadResponses ==
    {r \in Responses : r.ctype # "image/jpeg" /\ r.code = 200 /\ r.clen = <<>>}

\* the search finds nothing, or one animated image
ThreadSearches == {<<>>, ViewUrls}

InitThreads == Init /\ engine /\ mic /\ dir = EmptyDir

NextThreads ==
    \/ WorkerStart \/ WorkerListen
    \/ \E text \in ThreadUtterances : WorkerHear(text)
    \/ PollBegin \/ DispatchOne \/ PollEnd
    \/ ReloadTick
    \/ \E k \in 1..MaxSay : SayAcquire(k)
    \/ SayRelease
    \/ \E f \in BagToSet(fetches) : FetchBegin(f)
    \/ \E f \in BagToSet(fetches) : \E urls \in ThreadSearches : FetchSearch(f, urls)
    \/ \E f \in BagToSet(fetches) : \E r \in ThreadResponses : FetchDownload(f, r)
    \/ \E f \in BagToSet(fetches) : FetchFinish(f)

SpecThreads == InitThreads /\ [][NextThreads]_vars

\* SpecSay: the loop is the only caller of say: navigation by button over a
\* collection whose items are announced, and the announcer's threads.
InitSay == Init /\ engine /\ ~mic /\ dir # EmptyDir

NextSay ==
    \/ PressNext \/ PressPrev
    \/ AnimateTick
    \/ \E k \in 1..MaxSay : SayAcquire(k)
    \/ SayRelease

SpecSay == InitSay /\ [][NextSay]_vars

\* SpecWorker: SpeechWorker.run with and without a microphone, under every
\* outcome of listening and transcribing, with the dispatcher and the
\* announcer's threads.
WorkerUtterances == {"Next", " Frobnicate "}

InitWorker == Init /\ engine /\ dir = EmptyDir

NextWorker ==
    \/ WorkerStart \/ WorkerListen \/ WorkerUnknown \/ WorkerError \/ WorkerRetry
    \/ \E text \in WorkerUtterances : WorkerHear(text)
    \/ PollBegin \/ DispatchOne \/ PollEnd
    \/ \E k \in 1..MaxSay : SayAcquire(k)
    \/ SayRelease

SpecWorker == InitWorker /\ [][NextWorker]_vars

\* SpecReload: navigation, the slideshow and reloads over a directory that
\* starts with three files, loses some or all of them and gains the ones
\* downloaded.
\* the files the program may start with
StartFiles == UNION {DOMAIN d : d \in StartDirs}

InitReload == Init /\ ~engine /\ ~mic /\ dir # EmptyDir

NextReload ==
    \/ PressNext \/ PressPrev \/ PressSlideshow
    \/ PressDownloadCyn
    \/ SlideshowTick \/ ReloadTick
    \/ \E f \in BagToSet(fetches) : FetchBegin(f)
    \/ \E f \in BagToSet(fetches) : FetchSearch(f, ViewUrls)
    \/ \E f \in BagToSet(fetches) : FetchDownload(f, ViewResponse)
    \/ \E f \in BagToSet(fetches) : FetchFinish(f)
    \/ \E p \in StartFiles : RemoveFile(p)

SpecReload == InitReload /\ [][NextReload]_vars

\* SpecCycle: next_image applied, on its own, to the application showing
\* item `start` of a collection of 1..MaxItems items of every kind.
Collections ==
    UNION {[1..n -> {0, 1, 2}] : n \in 1..MaxItems}

CycleItems(kinds) ==
    [i \in 1..Len(kinds) |-> [path |-> IMAGES_DIR \o "/" \o str(i) \o ".gif",
                               frames |-> kinds[i]]]

CycleInputs ==
    {[a |-> _show_image([App0 EXCEPT !.images = CycleItems(kinds)], start),
      start |-> start, k |-> 0] :
        <<kinds, start>> \in {c \in Collections \X (0..(MaxItems - 1)) :
                                 c[2] < Len(c[1])}}

InitCycle == InitProgram /\ dir = EmptyDir /\ ~mic /\ probe \in CycleInputs

CycleNext ==
    /\ probe.k < Len(probe.a.images)
    /\ \E b \in {next_image(probe.a)} : probe' = [probe EXCEPT !.a = b, !.k = @ + 1]
    /\ UNCHANGED <<appvars, loopPc, running, command_q, workerPc, speaking, dir,
                   clock, engine, mic, enqueued, dispatched, tickEnq>>

NextCycle == CycleNext

SpecCycle == InitCycle /\ [][NextCycle]_vars

(***************************************************************************)
(* The claims.                                                             *)
(***************************************************************************)
IsPrefix(s, t) == Len(s) <= Len(t) /\ SubSeq(t, 1, Len(s)) = s

Last(q) == q[Len(q)]

\* the step takes a command from command_q and dispatches it
DispatchStep == command_q # <<>> /\ dispatched' = Append(dispatched, Head(command_q))

NextCmds == {"next", "show next", "next image"}
PrevCmds == {"previous", "prev", "show previous"}
StartCmds == {"start slideshow", "play slideshow", "start"}
StopCmds == {"stop slideshow", "stop"}
QuitCmds == {"quit", "exit", "close"}

\* the command belongs to no family
Unmapped(cmd) ==
    /\ ~startswith(cmd, "download")
    /\ cmd \notin NextCmds \cup PrevCmds \cup StartCmds \cup StopCmds \cup QuitCmds

\* C1: in every reachable state the commands dispatched so far are a prefix
\* of the commands the SpeechWorker enqueued so far: dispatch is in enqueue
\* order, nothing is dispatched twice, nothing is dispatched that was not
\* enqueued.
C1_DispatchedPrefixOfEnqueued == IsPrefix(dispatched, enqueued)

\* two different commands were enqueued and both dispatched, the second
\* while the first tick's drain or a later one was under way
C1_Witness ==
    /\ Len(dispatched) = 2 /\ dispatched[1] # dispatched[2]
    /\ dispatched = enqueued

\* C2: in every reachable state at most one _animate_gif callback is pending
\* on the loop.
C2_OneAnimationTimer == Cardinality(Pending(timers, "_animate_gif")) <= 1

\* an animation is running (a frame past the first is due) on a collection
\* that a reload has lengthened, with its one callback pending
C2_Witness ==
    /\ Cardinality(Pending(timers, "_animate_gif")) = 1
    /\ Len(images) > 3
    /\ current_frame_index = 1

\* C3: in every reachable state at most one _slideshow_step callback is
\* pending on the loop.
C3_OneSlideshowTimer == Cardinality(Pending(timers, "_slideshow_step")) <= 1

\* C4: after _stop_slideshow has run, and until a start is issued, at most
\* one slideshow-driven advance occurs.
C4_OneAdvanceAfterStop == sinceStop <= 1

\* C5: on an empty collection a navigation step, by button or by command,
\* changes nothing of the application: the cursor, the collection, what is
\* displayed, the timers, the announcements, the downloads.
C5_EmptyNavigationNoOp ==
    [][(/\ images = <<>>
        /\ \/ PressNext
           \/ PressPrev
           \/ DispatchStep /\ Head(command_q) \in NextCmds \cup PrevCmds)
       => UNCHANGED appvars]_vars

\* a navigation command has been dispatched on an empty collection, which
\* shows nothing and has nothing to announce
C5_Witness ==
    /\ images = <<>> /\ index = 0
    /\ dispatched # <<>> /\ Last(dispatched) \in NextCmds \cup PrevCmds
    /\ canvas.image = <<>>
    /\ Pending(timers, "_animate_gif") = {}

\* C6: next_image applied N times to a collection of N >= 1 items leaves the
\* cursor where it started.
C6_CycleReturnsToStart ==
    (probe # <<>> /\ probe.k = Len(probe.a.images)) => probe.a.index = probe.start

\* three advances from the second of three items
C6_Witness ==
    /\ probe # <<>>
    /\ Len(probe.a.images) = 3 /\ probe.start = 1 /\ probe.k = 3

\* C7: dispatching a download command whose last token is a decimal integer
\* starts one fetch whose count is that integer and whose query is the
\* tokens between "download" and it.
C7_DownloadCountNotInQuery ==
    [][(/\ DispatchStep
        /\ startswith(Head(command_q), "download")
        /\ Len(split(Head(command_q))) >= 2
        /\ isdigit(Last(split(Head(command_q)))))
       => LET parts == split(Head(command_q))
          IN  fetches' = fetches (+) SetToBag({FetchThread(
                             join(SubSeq(parts, 2, Len(parts) - 1)),
                             int(Last(parts)))})]_vars

\* C8: dispatching a command of no family issues one announcement, echoing
\* the command (none without a speech engine), and leaves the collection,
\* the cursor, the slideshow, the timers and the downloads as they were.
C8_UnrecognizedOnlyAnnounced ==
    [][(DispatchStep /\ Unmapped(Head(command_q)))
       => /\ sayq' = IF engine
                     THEN Append(sayq, "Command not recognized: " \o Head(command_q))
                     ELSE sayq
          /\ UNCHANGED <<images, index, slideshow, slideshow_job, anim_job,
                         current_frames, current_frame_index, canvas, status,
                         timers, quitting, fetches, nfetch>>]_vars

\* "frobnicate" was dispatched and its echo waits to be spoken
C8_Witness ==
    /\ dispatched # <<>> /\ Last(dispatched) = "frobnicate"
    /\ sayq # <<>> /\ Last(sayq) = "Command not recognized: frobnicate"

\* C9: when download_images returns, it has saved one file for each URL that
\* answered with an image, and none for any other.
C9_SavedAreTheImages ==
    \A f \in BagToSet(fetches) :
        (f.pc = "download" /\ f.i > Len(f.urls)) => Len(f.saved) = f.nimg

\* C10: no two live fetch runs have saved a file under the same name.
C10_NamesDoNotCollide ==
    \A f, g \in BagToSet(fetches) :
        /\ f # g => {f.saved[i] : i \in 1..Len(f.saved)}
                       \cap {g.saved[i] : i \in 1..Len(g.saved)} = {}
        /\ CopiesIn(f, fetches) > 1 => f.saved = <<>>

\* a step of the SpeechWorker thread, of a VoiceAssistant.say thread, of a
\* download_and_reload thread
WorkerStepped == workerPc' # workerPc
SayStepped == speaking' # speaking
FetchStepped == fetches' # fetches /\ nfetch' = nfetch

\* C11: no step of a SpeechWorker, say or download_and_reload thread changes
\* the collection, the cursor, the slideshow flag or a timer handle, and the
\* collection changes only in a _reload_images callback fired on the loop.
C11_LoopOwnsCollection ==
    [][/\ (WorkerStepped \/ SayStepped \/ FetchStepped)
            => UNCHANGED <<images, index, slideshow, slideshow_job, anim_job>>
       /\ images' # images
            => /\ loopPc = "idle"
               /\ \E t \in Pending(timers, "_reload_images") : t \notin timers']_vars

\* a download heard by the SpeechWorker has saved a file and ended with its
\* reload scheduled, and the collection is still the one the loop loaded
C11_Witness ==
    /\ enqueued # <<>>
    /\ nfetch > 0 /\ fetches = EmptyBag
    /\ DOMAIN dir # {}
    /\ Pending(timers, "_reload_images") # {}
    /\ images = <<>>
\* C12: no step of the SpeechWorker thread or of a download_and_reload thread
\* writes a field of the window: the status text, the canvas.
C12_ThreadsWriteNoWidget ==
    [][(WorkerStepped \/ FetchStepped) => UNCHANGED <<status, canvas>>]_vars
\* C13: in every reachable state at most one utterance is inside the speech
\* engine (between engine.say and the return of runAndWait).
C13_OneUtteranceAtATime == Len(speaking) <= 1

\* one utterance is being spoken while another say thread, started by a
\* different thread of the program, waits for the lock
C13_Witness ==
    /\ Len(speaking) = 1 /\ sayq # <<>>
    /\ "Voice commands ready." \in {speaking[1], sayq[1]}
    /\ speaking[1] # sayq[1]
\* C14: with the loop the only caller of say, the utterance that enters the
\* engine is the earliest-called of those waiting: announcements are spoken
\* in call order.
C14_SpokenInCallOrder ==
    [][(speaking = <<>> /\ speaking' # <<>>) => speaking'[1] = Head(sayq)]_vars
\* C15: while a poll tick drains the queue it has dispatched no command
\* beyond those enqueued before the tick began.
C15_TickDrainsItsSnapshot ==
    loopPc = "draining" => Len(dispatched) <= tickEnq
\* the announcements of a download_and_reload that failed
FailureAnnouncements ==
    {"Search returned no results.", "Download completed but no files were saved."}

\* C16: the step in which a download_and_reload thread ends leaves the
\* collection and the cursor as they were, makes one announcement, and either
\* (files saved) schedules one _reload_images and the announcement is not of
\* a failure, or (no URL, or no file saved) schedules nothing and the
\* announcement is of the failure.
C16_FetchEndsOneWay ==
    [][(FetchStepped /\ BagCardinality(fetches') < BagCardinality(fetches))
       => LET f == CHOOSE g \in BagToSet(fetches) : fetches' = fetches (-) SetToBag({g})
          IN  /\ UNCHANGED <<images, index>>
              /\ sayq' = Append(sayq, Last(sayq'))
              /\ IF f.saved # <<>>
                 THEN /\ timers \subseteq timers'
                      /\ Cardinality(timers' \ timers) = 1
                      /\ \A t \in timers' \ timers : t.cb = "_reload_images"
                      /\ Last(sayq') \notin FailureAnnouncements
                 ELSE /\ timers' = timers
                      /\ Last(sayq') \in FailureAnnouncements]_vars

\* of two downloads the first saved a file and scheduled its reload, the
\* second found nothing
C16_Witness ==
    /\ nfetch = 2 /\ fetches = EmptyBag
    /\ Cardinality(Pending(timers, "_reload_images")) = 1
    /\ status = "No results."
\* the states of SpeechWorker.run inside `while True`
Looping == {"listening", "transcribing", "backoff"}

\* C17: SpeechWorker.run never leaves its loop once in it; a step from
\* transcribing goes to listening having put one lower-case, stripped command
\* on the queue, or to listening having put nothing, or to the backoff having
\* put nothing; the backoff goes to listening; no other step of the worker
\* puts anything.  With no microphone its one step announces once and ends
\* it, and nothing is ever enqueued.
C17_WorkerStateMachine ==
    [][/\ workerPc \in Looping => workerPc' \in Looping
       /\ workerPc = "done" => workerPc' = "done"
       /\ ~mic => workerPc' \in {"start", "done"} /\ enqueued' = <<>>
       /\ WorkerStepped =>
            CASE workerPc = "start" ->
                   /\ workerPc' = IF mic THEN "listening" ELSE "done"
                   /\ sayq' # <<>> /\ sayq' = Append(sayq, Last(sayq'))
                   /\ command_q' = command_q /\ enqueued' = enqueued
              [] workerPc = "listening" ->
                   /\ workerPc' \in {"transcribing", "backoff"}
                   /\ command_q' = command_q /\ enqueued' = enqueued
              [] workerPc = "transcribing" ->
                   \/ /\ workerPc' = "listening"
                      /\ command_q' # <<>>
                      /\ command_q' = Append(command_q, Last(command_q'))
                      /\ enqueued' = Append(enqueued, Last(command_q'))
                      /\ lower(Last(command_q')) = Last(command_q')
                      /\ strip(Last(command_q')) = Last(command_q')
                   \/ /\ workerPc' \in {"listening", "backoff"}
                      /\ command_q' = command_q /\ enqueued' = enqueued
              [] workerPc = "backoff" ->
                   /\ workerPc' = "listening"
                   /\ command_q' = command_q /\ enqueued' = enqueued
              [] OTHER -> FALSE]_vars

\* two commands were heard and normalised, and a failure after them has the
\* worker in its backoff
C17_Witness ==
    /\ enqueued = <<"next", "frobnicate">>
    /\ workerPc = "backoff"
\* C18: in every reachable state every item of the collection decoded to at
\* least one frame, the item under the cursor among them.
C18_OnlyDecodedItems ==
    /\ \A i \in 1..Len(images) : images[i].frames > 0
    /\ images # <<>> => images[index + 1].frames > 0
\* C19: as long as the application lives and the loop is between callbacks
\* the poll is armed, and under a fair loop every command the SpeechWorker
\* enqueued is dispatched, unless the application has ended before.
C19_PollKeepsDispatching ==
    /\ [](running /\ loopPc = "idle" => Pending(timers, "_process_commands") # {})
    /\ \A n \in 1..MaxCmds :
           (Len(enqueued) >= n) ~> (Len(dispatched) >= n \/ ~running)

\* a tick that dispatched quit and then a download has returned, the
\* application still alive, and the poll is armed again
C19_Witness ==
    /\ running /\ loopPc = "idle"
    /\ dispatched = <<"quit", "download">>
    /\ Pending(timers, "_process_commands") # {}
\* C20: in every reachable state with a non-empty collection the cursor is
\* an index of it.
C20_CursorInRange ==
    images # <<>> => index \in 0..(Len(images) - 1)

\* a reload has replaced the three items the program started with by two,
\* one of them downloaded, and navigation has moved the cursor to the last
C20_Witness ==
    /\ Len(images) = 2 /\ index = 1
    /\ \E i \in 1..2 : images[i].path \notin {"images/a.gif", "images/b.png", "images/c.jpg"}
====
